---- MODULE Spec2Model ----
(***************************************************************************)
(* ComputeExplorationRecommendationsJob                                    *)
(* (core/jobs/batch_jobs/exp_recommendation_computation_jobs.py).          *)
(*                                                                         *)
(* The job is a Beam pipeline: every exploration summary is compared with  *)
(* all the others ('Compute similarity', with the whole snapshot as an     *)
(* AsIter side input), the emitted pairs are grouped by reference id,      *)
(* each group is sorted and sliced, a recommendation model is created per  *)
(* group, the models are put into the datastore and, on a second branch,   *)
(* counted to give the job's result.                                       *)
(*                                                                         *)
(* Exploration ids are the naturals 1..n (the code's ids are strings that  *)
(* are only compared for equality and copied; str() of a str is the same   *)
(* string).  Similarity scores are integers: the code compares floats      *)
(* with >= and orders them, nothing else, and 3.0 is the integer 3.        *)
(* update_timestamps() is left out: no field it sets is read by the job.   *)
(*                                                                         *)
(* RecommendationsHandler.get (core/controllers/reader.py) is the reader   *)
(* of the records the job writes: it answers a request with the author's   *)
(* recommendations and a random sample of the stored ones.                 *)
(***************************************************************************)
EXTENDS Integers, Sequences, FiniteSets, Bags, TLC

\* ------------------------------------------------------------- constants

MAX_RECOMMENDATIONS == 10

SIMILARITY_SCORE_THRESHOLD == 3

MAX_SYSTEM_RECOMMENDATIONS == 4

\* ---------------------------------------------------------------- bounds

\* Largest snapshot of the specification that explores every interleaving.
MaxItems == 3

\* Largest number of references with a non-zero score row in that specification.
MaxRefs == 2

\* Largest snapshot of the single-worker specification (more than
\* MAX_RECOMMENDATIONS + 1 items, so that a group is truncated).
MaxLarge == 12

\* Largest number of times a crashed run is run again.
MaxReruns == 1

\* Longest stored list the recommendations handler reads (more than
\* MAX_SYSTEM_RECOMMENDATIONS ids, so that the sample leaves some out).
MaxStored == 6

\* -------------------------------------------------------------- the state

VARIABLES
    exp_summary_models,          \* ids of ExpSummaryModel.get_all()
    scorer,                      \* stub of get_item_similarity: <<ref, c>> -> score
    datastore,                   \* ExplorationRecommendationsModel: id -> ids
    datastore_before,            \* the datastore when the first run started (never read)
    reruns,                      \* how many times the job was run again after a crash
    left_by_crash,               \* the datastore the last crashed run left (never read)
    scored,                      \* bag of the pairs get_item_similarity was called with
    yielding,                    \* reference id -> the rest of its running process()
    compared,                    \* reference ids whose process() has returned
    emitted,                     \* output PCollection of 'Compute similarity', a bag
    grouped,                     \* GroupByKey has fired
    groups,                      \* keys whose group awaits 'Sort and slice'
    last_call,                   \* last call of _sort_and_slice_similarities (SpecLarge)
    sliced,                      \* key -> ids, awaiting 'Create recommendation models'
    exp_recommendations_models,  \* bag of the created models
    pending_put,                 \* created models PutModels has not written yet
    count_pc,                    \* position of the count branch
    new_models_count,            \* output of Count.Globally()
    results,                     \* the PCollection run() returns
    failed,                      \* an exception has propagated out of the pipeline
    request,                     \* the request RecommendationsHandler.get was given
    response                     \* how the handler ended, and its locals

vars == <<exp_summary_models, scorer, datastore, datastore_before, reruns,
          left_by_crash, scored, yielding, compared, emitted, grouped,
          groups, last_call, sliced, exp_recommendations_models, pending_put,
          count_pc, new_models_count, results, failed, request, response>>

\* What only RecommendationsHandler.get assigns.
reader == <<request, response>>

\* What the run is given and never assigns.
inputs == <<exp_summary_models, scorer, datastore_before>>

\* What only a new run of the job assigns.
earlier_runs == <<reruns, left_by_crash>>

\* ---------------------------------------------------------------- helpers

Min(a, b) == IF a <= b THEN a ELSE b

Range(s) == {s[i] : i \in 1..Len(s)}

\* The bag of the elements of a sequence.
BagOfSeq(s) == [x \in Range(s) |-> Cardinality({i \in 1..Len(s) : s[i] = x})]

\* The empty function (no record, no pending element).
NoRecords == [x \in {} |-> <<>>]

\* All the orders in which the elements of S can be enumerated.
RECURSIVE Enumerations(_)
Enumerations(S) ==
    IF S = {} THEN {<<>>}
    ELSE UNION {{<<x>> \o rest : rest \in Enumerations(S \ {x})} : x \in S}

\* The elements of S (a set of ids) as an ascending sequence.
RECURSIVE SortedSeq(_)
SortedSeq(S) ==
    IF S = {} THEN <<>>
    ELSE LET m == CHOOSE x \in S : \A y \in S : x <= y
         IN <<m>> \o SortedSeq(S \ {m})

Rotate(s, k) == [i \in 1..Len(s) |-> s[((i + k - 1) % Len(s)) + 1]]

Reverse(s) == [i \in 1..Len(s) |-> s[Len(s) + 1 - i]]

\* The orders in which a Beam iterable over the set of ids S (the AsIter side
\* input) may be enumerated.  Beam promises no order: every
\* permutation for a set of at most MaxItems elements; for a larger set the
\* rotations of the ascending order and of the descending order.
IterationOrders(S) ==
    IF Cardinality(S) <= MaxItems THEN Enumerations(S)
    ELSE LET a == SortedSeq(S)
         IN {Rotate(a, k) : k \in 0..(Len(a) - 1)}
              \cup {Rotate(Reverse(a), k) : k \in 0..(Len(a) - 1)}

\* ------------------------------------------------------------- the scorer

\* recommendations_services.get_item_similarity is an external collaborator.
\* Its stub is a table chosen when the run starts; Raise stands for the call
\* raising an exception.
Raise == -1

get_item_similarity(ref, c) == scorer[<<ref, c>>]

\* The score tables of a snapshot 1..n.  score(ref, c) is the quality of the
\* candidate c (2, 3 or 4: below, at and above the threshold) when the
\* reference ref is in Comparable, and 0 otherwise; the pair (ref, ref) is
\* scored like any other, and the pair Faulty, when it is a pair of the
\* snapshot, raises.  Qualities ascend with the id: low ids up to lo have
\* quality 2, up to hi quality 3, the rest 4.
ScoreTable(n, lo, hi, Comparable, Faulty) ==
    [p \in (1..n) \X (1..n) |->
        IF p = Faulty THEN Raise
        ELSE IF p[1] \notin Comparable THEN 0
        ELSE IF p[2] <= lo THEN 2
        ELSE IF p[2] <= hi THEN 3
        ELSE 4]

\* No pair raises.
NoFault == <<0, 0>>

\* The pairs one of which may raise: none, or (r, r + 1) cyclically.
Faults(n) == {NoFault} \cup {<<r, (r % n) + 1>> : r \in {x \in 1..n : n >= 2}}

\* Every set of at most MaxRefs comparable references, every ascending quality
\* vector, at most one raising pair.
SmallStubs(n) ==
    {ScoreTable(n, lo, hi, C, f) :
        lo \in 0..n, hi \in 0..n,
        C \in {X \in SUBSET (1..n) : Cardinality(X) <= MaxRefs},
        f \in Faults(n)}

\* Large snapshots: item 1 is the only comparable reference; no pair raises,
\* or the pair (1, 2) does.
LargeStubs(n) ==
    {ScoreTable(n, lo, hi, {1}, f) : lo \in 0..n, hi \in 0..n, f \in {NoFault, <<1, 2>>}}

\* Snapshots on which every step of process() is followed: item 1 is the only
\* comparable reference; no pair raises, or one does.
UnitStubs(n) ==
    {ScoreTable(n, lo, hi, {1}, f) : lo \in 0..n, hi \in 0..n, f \in Faults(n)}

\* Snapshots on which a crashed run is run again: items 1 and 2 are the
\* comparable references.
RerunStubs(n) ==
    {ScoreTable(n, lo, hi, {1, 2} \cap (1..n), f) :
        lo \in 0..n, hi \in 0..n, f \in Faults(n)}

\* The datastore before the run: empty, or holding two records left by an
\* earlier run: one for exploration 1 and one for an exploration (id 0) that
\* is no longer in any snapshot.
InitialStores == {NoRecords, (0 :> <<1>>) @@ (1 :> <<2>>)}

\* ----------------------------------------------------- ComputeSimilarity

\* A comparator without the check of line 175.
never_reference(ref, c) == FALSE

\* Line 175: the compared summary is the reference itself.
is_reference(ref, c) == c = ref

\* A comparator that yields every pair it scores.
no_threshold(similarity_score) == TRUE

\* A comparator that drops a score equal to the threshold.
strictly_above_threshold(similarity_score) ==
    similarity_score > SIMILARITY_SCORE_THRESHOLD

\* Line 180.
above_threshold(similarity_score) == similarity_score >= SIMILARITY_SCORE_THRESHOLD

\* A comparator that catches the exception of the scorer and goes on with
\* the next summary.
RECURSIVE skip_failures(_, _, _)
skip_failures(ref, order, i) ==
    IF i > Len(order) THEN [yielded |-> <<>>, raised |-> FALSE, scored |-> <<>>]
    ELSE LET rest == skip_failures(ref, order, i + 1)
             similarity_score == get_item_similarity(ref, order[i])
             pair == [ref |-> ref, exp_id |-> order[i],
                      similarity_score |-> similarity_score]
         IN IF is_reference(ref, order[i]) THEN rest
            ELSE [yielded |-> IF similarity_score # Raise /\ above_threshold(similarity_score)
                              THEN <<pair>> \o rest.yielded
                              ELSE rest.yielded,
                  raised |-> FALSE,
                  scored |-> <<<<ref, order[i]>>>> \o rest.scored]

\* A comparator that calls the scorer first and compares the ids afterwards.
RECURSIVE score_then_check(_, _, _)
score_then_check(ref, order, i) ==
    IF i > Len(order) THEN [yielded |-> <<>>, raised |-> FALSE, scored |-> <<>>]
    ELSE LET similarity_score == get_item_similarity(ref, order[i])
         IN IF similarity_score = Raise
            THEN [yielded |-> <<>>, raised |-> TRUE, scored |-> <<<<ref, order[i]>>>>]
            ELSE LET rest == score_then_check(ref, order, i + 1)
                     pair == [ref |-> ref, exp_id |-> order[i],
                              similarity_score |-> similarity_score]
                 IN [yielded |-> IF ~is_reference(ref, order[i])
                                    /\ above_threshold(similarity_score)
                                 THEN <<pair>> \o rest.yielded
                                 ELSE rest.yielded,
                     raised |-> rest.raised,
                     scored |-> <<<<ref, order[i]>>>> \o rest.scored]

\* A comparator that gives the scorer the compared summary first and the
\* reference second.
RECURSIVE compared_first(_, _, _)
compared_first(ref, order, i) ==
    IF i > Len(order) THEN [yielded |-> <<>>, raised |-> FALSE, scored |-> <<>>]
    ELSE IF is_reference(ref, order[i]) THEN compared_first(ref, order, i + 1)
    ELSE LET similarity_score == get_item_similarity(order[i], ref)
         IN IF similarity_score = Raise
            THEN [yielded |-> <<>>, raised |-> TRUE, scored |-> <<<<order[i], ref>>>>]
            ELSE LET rest == compared_first(ref, order, i + 1)
                     pair == [ref |-> ref, exp_id |-> order[i],
                              similarity_score |-> similarity_score]
                 IN [yielded |-> IF above_threshold(similarity_score)
                                 THEN <<pair>> \o rest.yielded
                                 ELSE rest.yielded,
                     raised |-> rest.raised,
                     scored |-> <<<<order[i], ref>>>> \o rest.scored]

\* A comparator that yields every pair in both directions: for the reference
\* and, mirrored, for the compared summary.
RECURSIVE yields_both_ways(_, _, _)
yields_both_ways(ref, order, i) ==
    IF i > Len(order) THEN [yielded |-> <<>>, raised |-> FALSE, scored |-> <<>>]
    ELSE IF is_reference(ref, order[i]) THEN yields_both_ways(ref, order, i + 1)
    ELSE LET similarity_score == get_item_similarity(ref, order[i])
         IN IF similarity_score = Raise
            THEN [yielded |-> <<>>, raised |-> TRUE, scored |-> <<<<ref, order[i]>>>>]
            ELSE LET rest == yields_both_ways(ref, order, i + 1)
                     pair == [ref |-> ref, exp_id |-> order[i],
                              similarity_score |-> similarity_score]
                     mirrored == [ref |-> order[i], exp_id |-> ref,
                                  similarity_score |-> similarity_score]
                 IN [yielded |-> IF above_threshold(similarity_score)
                                 THEN <<pair, mirrored>> \o rest.yielded
                                 ELSE rest.yielded,
                     raised |-> rest.raised,
                     scored |-> <<<<ref, order[i]>>>> \o rest.scored]

\* ComputeSimilarity.process from the i-th summary of the side input on: the
\* pairs yielded, in order, whether get_item_similarity raised (the
\* generator stops there; what it yielded before stays yielded), and the
\* pairs get_item_similarity was called with, in order.
RECURSIVE process_from(_, _, _)
process_from(ref, order, i) ==
    IF i > Len(order) THEN [yielded |-> <<>>, raised |-> FALSE, scored |-> <<>>]
    ELSE IF is_reference(ref, order[i]) THEN process_from(ref, order, i + 1)
    ELSE LET similarity_score == get_item_similarity(ref, order[i])
         IN IF similarity_score = Raise
            THEN [yielded |-> <<>>, raised |-> TRUE, scored |-> <<<<ref, order[i]>>>>]
            ELSE LET rest == process_from(ref, order, i + 1)
                     pair == [ref |-> ref, exp_id |-> order[i],
                              similarity_score |-> similarity_score]
                 IN [yielded |-> IF above_threshold(similarity_score)
                                 THEN <<pair>> \o rest.yielded
                                 ELSE rest.yielded,
                     raised |-> rest.raised,
                     scored |-> <<<<ref, order[i]>>>> \o rest.scored]

process(ref, order) == process_from(ref, order, 1)

\* ------------------------------------------- _sort_and_slice_similarities

\* One step of sorted(..., key=similarity_score) without reverse=True.
RECURSIVE insert_asc(_, _)
insert_asc(x, s) ==
    IF s = <<>> THEN <<x>>
    ELSE IF Head(s).similarity_score <= x.similarity_score
         THEN <<Head(s)>> \o insert_asc(x, Tail(s))
         ELSE <<x>> \o s

\* One step of an ascending sort whose result is then reversed: x is placed
\* in front of the elements of the same key, so that ties come out in the
\* reverse of the input order.
RECURSIVE insert_before_ties(_, _)
insert_before_ties(x, s) ==
    IF s = <<>> THEN <<x>>
    ELSE IF Head(s).similarity_score > x.similarity_score
         THEN <<Head(s)>> \o insert_before_ties(x, Tail(s))
         ELSE <<x>> \o s

\* One step of sorted(..., reverse=True, key=similarity_score): x is placed
\* behind every element whose key is not smaller.  Python's sort is stable,
\* also with reverse=True: equal keys keep the order of the input.
RECURSIVE insert_desc(_, _)
insert_desc(x, s) ==
    IF s = <<>> THEN <<x>>
    ELSE IF Head(s).similarity_score >= x.similarity_score
         THEN <<Head(s)>> \o insert_desc(x, Tail(s))
         ELSE <<x>> \o s

RECURSIVE sorted_from(_, _, _)
sorted_from(similarities, i, acc) ==
    IF i > Len(similarities) THEN acc
    ELSE sorted_from(similarities, i + 1, insert_desc(similarities[i], acc))

\* The similarities left in the order of the input.
unsorted(similarities) == similarities

\* Lines 112-113.
sorted_reverse(similarities) == sorted_from(similarities, 1, <<>>)

\* The ids of all the items, without the slice.
all_ids(sorted_similarities) ==
    [i \in 1..Len(sorted_similarities) |-> sorted_similarities[i].exp_id]

\* Lines 114-116: the ids of the first MAX_RECOMMENDATIONS items.
slice_ids(sorted_similarities) ==
    [i \in 1..Min(Len(sorted_similarities), MAX_RECOMMENDATIONS) |->
        sorted_similarities[i].exp_id]

\* The slice taken before the sort.
slice_then_sort(similarities) ==
    slice_ids(sorted_reverse(
        SubSeq(similarities, 1, Min(Len(similarities), MAX_RECOMMENDATIONS))))

\* Lines 112-116.
sort_and_slice_similarities(similarities) == slice_ids(sorted_reverse(similarities))

\* A model that keeps, behind the new ids, the list the datastore holds
\* under that id.
merged_with_stored(exp_id, recommended_exp_ids) ==
    [id |-> exp_id,
     recommended_exploration_ids |->
        recommended_exp_ids \o (IF exp_id \in DOMAIN datastore
                                THEN datastore[exp_id] ELSE <<>>)]

\* Lines 134-136: a new model, built from the id and the list alone.
create_recommendation(exp_id, recommended_exp_ids) ==
    [id |-> exp_id, recommended_exploration_ids |-> recommended_exp_ids]

\* ------------------------------------------------------------ the pipeline

\* A key for every reference summary, also one no pair was emitted for.
keys_of_every_reference(pairs) ==
    {p.ref : p \in BagToSet(pairs)} \cup exp_summary_models

\* A key, with an empty group, also for every id the datastore has a record of.
keys_with_stored(pairs) == {p.ref : p \in BagToSet(pairs)} \cup DOMAIN datastore

\* No key for an id the datastore already has a record of.
keys_not_stored(pairs) == {p.ref : p \in BagToSet(pairs)} \ DOMAIN datastore

\* The keys GroupByKey gives: one per reference id some emitted pair carries.
group_keys(pairs) == {p.ref : p \in BagToSet(pairs)}

\* The values of every key in one group, whatever the key.
values_of_every_key(pairs, exp_id) ==
    {[i \in 1..Len(order) |->
        [exp_id |-> order[i].exp_id, similarity_score |-> order[i].similarity_score]] :
            order \in Enumerations(BagToSet(pairs))}

\* The elements of the group of a key: <<exp_id, similarity_score, k>> is the
\* k-th copy of the pair with that candidate and that score (a PCollection is
\* a bag, and GroupByKey keeps every copy).
elements_of_key(pairs, exp_id) ==
    UNION {{<<p.exp_id, p.similarity_score, k>> : k \in 1..CopiesIn(p, pairs)} :
              p \in {q \in BagToSet(pairs) : q.ref = exp_id}}

\* The lexicographic order of the elements of a group.
Precedes(a, b) ==
    \/ a[1] < b[1]
    \/ a[1] = b[1] /\ a[2] < b[2]
    \/ a[1] = b[1] /\ a[2] = b[2] /\ a[3] <= b[3]

RECURSIVE SortedElements(_)
SortedElements(S) ==
    IF S = {} THEN <<>>
    ELSE LET m == CHOOSE x \in S : \A y \in S : Precedes(x, y)
         IN <<m>> \o SortedElements(S \ {m})

\* The orders in which the iterable of a group may enumerate its elements:
\* as IterationOrders, every permutation of a small group, the rotations of
\* the ascending and of the descending order of a larger one.
GroupOrders(S) ==
    IF Cardinality(S) <= MaxItems THEN Enumerations(S)
    ELSE LET a == SortedElements(S)
         IN {Rotate(a, k) : k \in 0..(Len(a) - 1)}
              \cup {Rotate(Reverse(a), k) : k \in 0..(Len(a) - 1)}

\* The values of the group of a key, each an {exp_id, similarity_score} dict,
\* in the orders in which the iterable GroupByKey gives may enumerate them.
group_values(pairs, exp_id) ==
    {[i \in 1..Len(order) |->
        [exp_id |-> order[i][1], similarity_score |-> order[i][2]]] :
            order \in GroupOrders(elements_of_key(pairs, exp_id))}

\* The count of the emitted pairs instead of the created models.
count_similarities(pcollection) == BagCardinality(emitted)

\* Line 87: Count.Globally() of a PCollection.
count_globally(pcollection) == BagCardinality(pcollection)

\* A filter that lets a count of 0 through.
not_negative(x) == x >= 0

\* Line 89: the Filter on the count.
only_new_models(x) == x > 0

\* Lines 90-92.
job_run_result(x) == [stdout |-> <<"SUCCESS", x>>]

\* The put of one model (ndb_io.PutModels; spec.md 4.4 and 6): the model's
\* id is its key, the record of that id is created or overwritten and no
\* other record is touched.
put(store, model) == (model.id :> model.recommended_exploration_ids) @@ store

\* A pipeline that goes on after an exception.
keeps_running == TRUE

\* ------------------------------------------------ RecommendationsHandler

\* Python's None: no id and no user.
None == 0 - 1

\* The text of a request parameter is a sequence of characters.
Digit == <<"1", "2", "3", "4", "5", "6", "7", "8", "9">>

IsDigit(ch) == \E n \in DOMAIN Digit : Digit[n] = ch

DigitValue(ch) == CHOOSE n \in DOMAIN Digit : Digit[n] = ch

\* An exploration id is a string: the id n is the JSON string "n".  The JSON
\* number n is another value, equal to no id.
Number(n) == None - n

IsNumber(x) == x < None

\* What the client sends as stringified_author_recommended_ids for a list:
\* its JSON text.
stringified_item(x) ==
    IF IsNumber(x) THEN <<Digit[None - x]>> ELSE <<"\"", Digit[x], "\"">>

RECURSIVE stringified_from(_, _)
stringified_from(list, i) ==
    IF i > Len(list) THEN <<>>
    ELSE (IF i > 1 THEN <<",">> ELSE <<>>)
            \o stringified_item(list[i]) \o stringified_from(list, i + 1)

stringified(list) == <<"[">> \o stringified_from(list, 1) \o <<"]">>

\* json.loads raised.
Malformed == [raised |-> TRUE, is_list |-> FALSE, value |-> <<>>]

\* The items of a JSON array from position i of the text on, where an item
\* has to start: one-digit strings and one-digit numbers, separated by
\* commas and closed by the bracket that ends the text.
RECURSIVE loads_items(_, _)
loads_items(s, i) ==
    IF i > Len(s) THEN Malformed
    ELSE LET quoted == /\ s[i] = "\""
                       /\ i + 2 <= Len(s)
                       /\ IsDigit(s[i + 1])
                       /\ s[i + 2] = "\""
             item == IF quoted THEN DigitValue(s[i + 1])
                     ELSE Number(DigitValue(s[i]))
             j == IF quoted THEN i + 3 ELSE i + 1
         IN IF ~(quoted \/ IsDigit(s[i])) THEN Malformed
            ELSE IF j > Len(s) THEN Malformed
            ELSE IF s[j] = "]"
                 THEN IF j = Len(s)
                      THEN [raised |-> FALSE, is_list |-> TRUE, value |-> <<item>>]
                      ELSE Malformed
            ELSE IF s[j] = ","
                 THEN LET rest == loads_items(s, j + 1)
                      IN IF rest.raised THEN Malformed
                         ELSE [raised |-> FALSE, is_list |-> TRUE,
                               value |-> <<item>> \o rest.value]
            ELSE Malformed

\* Lines 873-874: json.loads of the parameter, for the JSON texts the
\* requests carry: an array of one-digit strings and numbers, a one-digit
\* number (a value that is no list), or a text that is no JSON.
json_loads(s) ==
    IF s = <<>> THEN Malformed
    ELSE IF s = <<"[", "]">> THEN [raised |-> FALSE, is_list |-> TRUE, value |-> <<>>]
    ELSE IF s[1] = "[" THEN loads_items(s, 2)
    ELSE IF Len(s) = 1 /\ IsDigit(s[1])
         THEN [raised |-> FALSE, is_list |-> FALSE, value |-> <<>>]
    ELSE Malformed

\* The truth value Python gives a string in a condition.
truthy(s) == s # ""

\* recommendations_services.get_exploration_recommendations: the stored list
\* of the exploration, or an empty list when it has no record.
get_exploration_recommendations(exploration_id) ==
    IF exploration_id \in DOMAIN datastore THEN datastore[exploration_id] ELSE <<>>

\* What the collection services may give as the next exploration of a
\* collection: None or the id of an exploration.
NextExplorationIds == {None} \cup 1..2

get_next_exploration_id_to_complete_by_user(user_id, collection_id) ==
    NextExplorationIds

get_next_exploration_id_in_sequence(collection_id, exploration_id) ==
    NextExplorationIds \ {exploration_id}

\* Every stored id, also those the author recommends.
not_filtered(system_chosen_exp_ids, author_recommended_exp_ids) ==
    Range(system_chosen_exp_ids)

\* Lines 896-897: the stored ids the author does not recommend.
filtered_exp_ids(system_chosen_exp_ids, author_recommended_exp_ids) ==
    Range(system_chosen_exp_ids) \ Range(author_recommended_exp_ids)

\* Line 900: the length of the sample.
sample_size(filtered) == Min(MAX_SYSTEM_RECOMMENDATIONS, Cardinality(filtered))

\* random.sample(population, k): any k distinct elements, in any order.
random_sample(population, k) ==
    {sample \in [1..k -> population] :
        \A i, j \in 1..k : i # j => sample[i] # sample[j]}

\* How get() ends, with its locals: the response is rendered ("ok"), or an
\* exception leaves the handler.  recommended_exp_ids (lines 902-905) is the
\* set the summaries of the response are fetched for.
Ended(status, author_recommended_exp_ids, system_recommended_exp_ids, next_exp_id) ==
    [status |-> status,
     author_recommended_exp_ids |-> author_recommended_exp_ids,
     system_recommended_exp_ids |-> system_recommended_exp_ids,
     next_exp_id |-> next_exp_id,
     recommended_exp_ids |->
        IF status = "ok"
        THEN Range(author_recommended_exp_ids) \cup Range(system_recommended_exp_ids)
                \cup (IF next_exp_id # None THEN {next_exp_id} ELSE {})
        ELSE {}]

NoRequest ==
    [exploration_id |-> None, collection_id |-> "",
     include_system_recommendations |-> "",
     stringified_author_recommended_ids |-> <<>>, user_id |-> None]

NoResponse == Ended("none", <<>>, <<>>, None)

\* Lines 867-913: the ways get() may end for a request.  A parameter that is
\* JSON but no list raises a TypeError: in set() (line 897) before anything
\* is sampled, or in the concatenation (line 903).
RecommendationsHandler_get(req) ==
    LET parsed == json_loads(req.stringified_author_recommended_ids)
        author_recommended_exp_ids == parsed.value
        status == IF parsed.is_list THEN "ok" ELSE "TypeError"
    IN IF parsed.raised
       THEN {Ended("PageNotFoundException", <<>>, <<>>, None)}
       ELSE IF truthy(req.collection_id)
       THEN {Ended(status, author_recommended_exp_ids, <<>>, next_exp_id) :
                next_exp_id \in
                    IF req.user_id # None
                    THEN get_next_exploration_id_to_complete_by_user(
                             req.user_id, req.collection_id)
                    ELSE get_next_exploration_id_in_sequence(
                             req.collection_id, req.exploration_id)}
       ELSE IF truthy(req.include_system_recommendations) /\ parsed.is_list
       THEN LET system_chosen_exp_ids ==
                    get_exploration_recommendations(req.exploration_id)
                filtered == filtered_exp_ids(
                                system_chosen_exp_ids, author_recommended_exp_ids)
            IN {Ended("ok", author_recommended_exp_ids, system_recommended_exp_ids, None) :
                    system_recommended_exp_ids \in
                        random_sample(filtered, sample_size(filtered))}
       ELSE {Ended(status, author_recommended_exp_ids, <<>>, None)}

\* ---------------------------------------------------------- the actions

\* An exception that propagates out of a step ends the pipeline.
Running == ~failed

Start(n, table, store) ==
    /\ exp_summary_models = 1..n
    /\ scorer = table
    /\ datastore = store
    /\ datastore_before = store
    /\ reruns = 0
    /\ left_by_crash = NoRecords
    /\ scored = EmptyBag
    /\ yielding = NoRecords
    /\ compared = {}
    /\ emitted = EmptyBag
    /\ grouped = FALSE
    /\ groups = {}
    /\ last_call = [similarities |-> <<>>, returned |-> <<>>]
    /\ sliced = NoRecords
    /\ exp_recommendations_models = EmptyBag
    /\ pending_put = {}
    /\ count_pc = "count"
    /\ new_models_count = 0
    /\ results = <<>>
    /\ failed = FALSE
    /\ request = NoRequest
    /\ response = NoResponse

Init ==
    \E n \in 0..MaxItems : \E table \in SmallStubs(n) : \E store \in InitialStores :
        Start(n, table, store)

UnitsInit ==
    \E n \in 0..MaxItems : \E table \in UnitStubs(n) : \E store \in InitialStores :
        Start(n, table, store)

RerunInit ==
    \E n \in 0..MaxItems : \E table \in RerunStubs(n) : \E store \in InitialStores :
        Start(n, table, store)

LargeInit ==
    \E n \in 0..MaxLarge : \E table \in LargeStubs(n) : \E store \in InitialStores :
        Start(n, table, store)

\* The barrier opens as soon as a pair has been emitted.
SomeEmitted == emitted # EmptyBag

\* Every 'Compute similarity' unit has returned: the input of GroupByKey is
\* complete.
AllCompared == compared = exp_summary_models

\* A comparator that takes its reference summary out of the shared snapshot
\* when it starts.
TakeReference(ref) ==
    /\ Running
    /\ ref \in exp_summary_models \ (compared \cup DOMAIN yielding)
    /\ exp_summary_models' = exp_summary_models \ {ref}
    /\ yielding' = (ref :> [yielded |-> <<>>, raised |-> FALSE]) @@ yielding
    /\ UNCHANGED <<reader, scorer, datastore_before, earlier_runs, scored, datastore,
                   compared, emitted, grouped, groups, last_call, sliced,
                   exp_recommendations_models, pending_put, count_pc,
                   new_models_count, results, failed>>

\* 'Compute similarity' starts on one reference summary: process() is called
\* and will enumerate the side input in some order.
ProcessStart(ref) ==
    /\ Running
    /\ ref \in exp_summary_models \ (compared \cup DOMAIN yielding)
    /\ \E order \in IterationOrders(exp_summary_models) :
          LET out == process(ref, order)
          IN /\ yielding' = (ref :> [yielded |-> out.yielded, raised |-> out.raised])
                               @@ yielding
             /\ scored' = scored (+) BagOfSeq(out.scored)
    /\ UNCHANGED <<reader, inputs, earlier_runs, datastore, compared, emitted, grouped, groups,
                   last_call, sliced, exp_recommendations_models, pending_put,
                   count_pc, new_models_count, results, failed>>

\* The running process() of ref yields its next pair (lines 181-186).
ProcessYield(ref) ==
    /\ Running
    /\ ref \in DOMAIN yielding
    /\ yielding[ref].yielded # <<>>
    /\ emitted' = emitted (+) SetToBag({Head(yielding[ref].yielded)})
    /\ yielding' = [yielding EXCEPT ![ref].yielded = Tail(@)]
    /\ UNCHANGED <<reader, inputs, earlier_runs, scored, datastore, compared, grouped, groups,
                   last_call, sliced, exp_recommendations_models, pending_put,
                   count_pc, new_models_count, results, failed>>

\* The running process() of ref comes to the end of the side input.
ProcessReturn(ref) ==
    /\ Running
    /\ ref \in DOMAIN yielding
    /\ yielding[ref].yielded = <<>>
    /\ ~yielding[ref].raised
    /\ compared' = compared \cup {ref}
    /\ yielding' = [k \in DOMAIN yielding \ {ref} |-> yielding[k]]
    /\ UNCHANGED <<reader, inputs, earlier_runs, scored, datastore, emitted, grouped, groups,
                   last_call, sliced, exp_recommendations_models, pending_put,
                   count_pc, new_models_count, results, failed>>

\* The running process() of ref comes to the pair get_item_similarity raises
\* on: the exception is not caught (lines 169-186) and the pipeline fails.
ProcessRaise(ref) ==
    /\ Running
    /\ ref \in DOMAIN yielding
    /\ yielding[ref].yielded = <<>>
    /\ yielding[ref].raised
    /\ failed' = TRUE
    /\ UNCHANGED <<reader, inputs, earlier_runs, scored, yielding, datastore, compared, emitted, grouped,
                   groups, last_call, sliced, exp_recommendations_models,
                   pending_put, count_pc, new_models_count, results>>

\* 'Compute similarity' on one reference summary, from ProcessStart to
\* ProcessReturn without a step of another unit in between: process() runs to
\* its end and its output joins the PCollection.
ComputeSimilarity(ref) ==
    /\ Running
    /\ ref \in exp_summary_models \ compared
    /\ \E order \in IterationOrders(exp_summary_models) :
          LET out == process(ref, order)
          IN /\ ~out.raised
             /\ emitted' = emitted (+) BagOfSeq(out.yielded)
             /\ scored' = scored (+) BagOfSeq(out.scored)
    /\ compared' = compared \cup {ref}
    /\ UNCHANGED <<reader, inputs, earlier_runs, yielding, datastore, grouped, groups,
                   last_call, sliced, exp_recommendations_models, pending_put,
                   count_pc, new_models_count, results, failed>>

\* 'Compute similarity' on one reference summary, from ProcessStart to
\* ProcessRaise without a step of another unit in between.
ComputeSimilarityRaises(ref) ==
    /\ Running
    /\ ref \in exp_summary_models \ compared
    /\ \E order \in IterationOrders(exp_summary_models) :
          LET out == process(ref, order)
          IN /\ out.raised
             /\ emitted' = emitted (+) BagOfSeq(out.yielded)
             /\ scored' = scored (+) BagOfSeq(out.scored)
    /\ failed' = TRUE
    /\ UNCHANGED <<reader, inputs, earlier_runs, yielding, datastore, compared, grouped,
                   groups, last_call, sliced, exp_recommendations_models,
                   pending_put, count_pc, new_models_count, results>>

\* 'Group similarities per exploration ID': a barrier, it gives its groups
\* when the whole input PCollection is there.
GroupByKey ==
    /\ Running
    /\ ~grouped
    /\ AllCompared
    /\ grouped' = TRUE
    /\ groups' = group_keys(emitted)
    /\ UNCHANGED <<reader, inputs, earlier_runs, scored, yielding, datastore, compared, emitted,
                   last_call, sliced, exp_recommendations_models, pending_put,
                   count_pc, new_models_count, results, failed>>

\* 'Sort and slice similarities' on one group, whose values come as the
\* sequence similarities.
SortAndSlice(exp_id, similarities) ==
    /\ Running
    /\ exp_id \in groups
    /\ similarities \in group_values(emitted, exp_id)
    /\ sliced' = (exp_id :> sort_and_slice_similarities(similarities)) @@ sliced
    /\ groups' = groups \ {exp_id}
    /\ UNCHANGED <<reader, inputs, earlier_runs, scored, yielding, datastore, compared, emitted,
                   grouped, exp_recommendations_models, pending_put, count_pc,
                   new_models_count, results, failed>>

\* The argument and the value of that call.
Call(similarities) ==
    [similarities |-> similarities,
     returned |-> sort_and_slice_similarities(similarities)]

\* 'Create recommendation models' on one sorted and sliced group.
CreateRecommendation(exp_id) ==
    /\ Running
    /\ exp_id \in DOMAIN sliced
    /\ LET model == create_recommendation(exp_id, sliced[exp_id])
       IN /\ exp_recommendations_models' =
                exp_recommendations_models (+) SetToBag({model})
          /\ pending_put' = pending_put \cup {model}
    /\ sliced' = [k \in DOMAIN sliced \ {exp_id} |-> sliced[k]]
    /\ UNCHANGED <<reader, inputs, earlier_runs, scored, yielding, datastore, compared, emitted,
                   grouped, groups, last_call, count_pc, new_models_count,
                   results, failed>>

\* 'Put models into the datastore' on one model: the entity of that id is
\* created or overwritten.
PutModels(model) ==
    /\ Running
    /\ model \in pending_put
    /\ datastore' = put(datastore, model)
    /\ pending_put' = pending_put \ {model}
    /\ UNCHANGED <<reader, inputs, earlier_runs, scored, yielding, compared, emitted, grouped,
                   groups, last_call, sliced, exp_recommendations_models,
                   count_pc, new_models_count, results, failed>>

\* The datastore rejects the put of one model: the pipeline fails.
PutModelsFails(model) ==
    /\ Running
    /\ model \in pending_put
    /\ failed' = TRUE
    /\ UNCHANGED <<reader, inputs, earlier_runs, scored, yielding, datastore, compared, emitted,
                   grouped, groups, last_call, sliced,
                   exp_recommendations_models, pending_put, count_pc,
                   new_models_count, results>>

\* Every model of exp_recommendations_models has been created.
AllCreated == grouped /\ groups = {} /\ DOMAIN sliced = {}

\* 'Count all new models': a global combine, computed when its whole input is
\* there (0 for an empty input).
CountAllNewModels ==
    /\ Running
    /\ AllCreated
    /\ count_pc = "count"
    /\ new_models_count' = count_globally(exp_recommendations_models)
    /\ count_pc' = "filter"
    /\ UNCHANGED <<reader, inputs, earlier_runs, scored, yielding, datastore, compared, emitted,
                   grouped, groups, last_call, sliced,
                   exp_recommendations_models, pending_put, results, failed>>

\* 'Only create result for new models when > 0' and 'Create result for new
\* models' on the one count.
CreateResult ==
    /\ Running
    /\ count_pc = "filter"
    /\ results' = IF only_new_models(new_models_count)
                  THEN Append(results, job_run_result(new_models_count))
                  ELSE results
    /\ count_pc' = "end"
    /\ UNCHANGED <<reader, inputs, earlier_runs, scored, yielding, datastore, compared, emitted,
                   grouped, groups, last_call, sliced,
                   exp_recommendations_models, pending_put, new_models_count,
                   failed>>

Next ==
    \/ \E ref \in exp_summary_models : ComputeSimilarity(ref)
    \/ \E ref \in exp_summary_models : ComputeSimilarityRaises(ref)
    \/ GroupByKey
    \/ \E exp_id \in groups : \E similarities \in group_values(emitted, exp_id) :
          SortAndSlice(exp_id, similarities) /\ UNCHANGED last_call
    \/ \E exp_id \in DOMAIN sliced : CreateRecommendation(exp_id)
    \/ \E model \in pending_put : PutModels(model)
    \/ \E model \in pending_put : PutModelsFails(model)
    \/ CountAllNewModels
    \/ CreateResult

Spec == Init /\ [][Next]_vars

\* The same pipeline on one worker: 'Compute similarity' takes the reference
\* summaries one after the other, in ascending order of id.  This
\* specification also records each call of _sort_and_slice_similarities.
NextInTurn(ref) == \A other \in exp_summary_models \ compared : ref <= other

LargeNext ==
    \/ \E ref \in exp_summary_models : NextInTurn(ref) /\ ComputeSimilarity(ref)
    \/ \E ref \in exp_summary_models : NextInTurn(ref) /\ ComputeSimilarityRaises(ref)
    \/ GroupByKey
    \/ \E exp_id \in groups : \E similarities \in group_values(emitted, exp_id) :
          SortAndSlice(exp_id, similarities) /\ last_call' = Call(similarities)
    \/ \E exp_id \in DOMAIN sliced : CreateRecommendation(exp_id)
    \/ \E model \in pending_put : PutModels(model)
    \/ \E model \in pending_put : PutModelsFails(model)
    \/ CountAllNewModels
    \/ CreateResult

SpecLarge == LargeInit /\ [][LargeNext]_vars

\* The same pipeline with every step of every 'Compute similarity' unit: a
\* unit starts, yields its pairs one by one into the PCollection and returns
\* or raises, and the steps of the units interleave.
UnitsNext ==
    \/ \E ref \in exp_summary_models : ProcessStart(ref)
    \/ \E ref \in exp_summary_models : ProcessYield(ref)
    \/ \E ref \in exp_summary_models : ProcessReturn(ref)
    \/ \E ref \in exp_summary_models : ProcessRaise(ref)
    \/ GroupByKey
    \/ \E exp_id \in groups : \E similarities \in group_values(emitted, exp_id) :
          SortAndSlice(exp_id, similarities) /\ UNCHANGED last_call
    \/ \E exp_id \in DOMAIN sliced : CreateRecommendation(exp_id)
    \/ \E model \in pending_put : PutModels(model)
    \/ \E model \in pending_put : PutModelsFails(model)
    \/ CountAllNewModels
    \/ CreateResult

SpecUnits == UnitsInit /\ [][UnitsNext]_vars

\* The run is killed before its end (a worker or the engine crashes).
Crash ==
    /\ Running
    /\ ~(AllCreated /\ pending_put = {} /\ count_pc = "end")
    /\ failed' = TRUE
    /\ UNCHANGED <<reader, inputs, earlier_runs, scored, yielding, datastore, compared, emitted,
                   grouped, groups, last_call, sliced,
                   exp_recommendations_models, pending_put, count_pc,
                   new_models_count, results>>

\* The job is run again after a crashed run: a new pipeline on the same
\* snapshot and scorer, and the datastore as the crashed run left it.
Rerun ==
    /\ failed
    /\ reruns < MaxReruns
    /\ reruns' = reruns + 1
    /\ left_by_crash' = datastore
    /\ scored' = EmptyBag
    /\ yielding' = NoRecords
    /\ compared' = {}
    /\ emitted' = EmptyBag
    /\ grouped' = FALSE
    /\ groups' = {}
    /\ sliced' = NoRecords
    /\ exp_recommendations_models' = EmptyBag
    /\ pending_put' = {}
    /\ count_pc' = "count"
    /\ new_models_count' = 0
    /\ results' = <<>>
    /\ failed' = FALSE
    /\ UNCHANGED <<reader, inputs, datastore, last_call>>

\* Runs of the job that may crash, each crashed run followed by a new run.
RerunNext ==
    \/ \E ref \in exp_summary_models : ComputeSimilarity(ref)
    \/ \E ref \in exp_summary_models : ComputeSimilarityRaises(ref)
    \/ GroupByKey
    \/ \E exp_id \in groups : \E similarities \in group_values(emitted, exp_id) :
          SortAndSlice(exp_id, similarities) /\ UNCHANGED last_call
    \/ \E exp_id \in DOMAIN sliced : CreateRecommendation(exp_id)
    \/ \E model \in pending_put : PutModels(model)
    \/ \E model \in pending_put : PutModelsFails(model)
    \/ CountAllNewModels
    \/ CreateResult
    \/ Crash
    \/ Rerun

SpecRerun == RerunInit /\ [][RerunNext]_vars

\* ------------------------------------------------- the reader's requests

\* The ids an author recommends: stored ones, one that is not stored, and a
\* JSON number.
AuthorIds == {2, 3, 9, Number(2)}

AuthorLists == {<<>>} \cup {<<a>> : a \in AuthorIds}
                  \cup {<<a, b>> : a, b \in AuthorIds}

\* The texts of the parameter: a list, no JSON (an empty text, an array left
\* open, a comma before the closing bracket), and a number.
StringifiedIds ==
    {stringified(list) : list \in AuthorLists}
        \cup {<<>>, <<"[">>, <<"[", "\"", "2", "\"", ",", "]">>, <<"5">>}

Requests ==
    [exploration_id : 1..2,
     collection_id : {"", "c"},
     include_system_recommendations : {"", "true", "false"},
     stringified_author_recommended_ids : StringifiedIds,
     user_id : {None, 1}]

\* The datastores the handler reads: none, or the record of exploration 1
\* with 1 to MaxStored ids, as the job wrote it.
ReaderStores ==
    {NoRecords} \cup {(1 :> [i \in 1..k |-> i + 1]) : k \in 1..MaxStored}

ReaderInit ==
    \E store \in ReaderStores : \E table \in SmallStubs(0) : Start(0, table, store)

\* One request is answered in a behaviour: the handler keeps nothing from
\* one request to the next.
get(req) ==
    /\ request = NoRequest
    /\ request' = req
    /\ response' \in RecommendationsHandler_get(req)
    /\ UNCHANGED <<inputs, earlier_runs, scored, yielding, datastore, compared, emitted,
                   grouped, groups, last_call, sliced,
                   exp_recommendations_models, pending_put, count_pc,
                   new_models_count, results, failed>>

ReaderNext == \E req \in Requests : get(req)

SpecReader == ReaderInit /\ [][ReaderNext]_vars

\* ------------------------------------------------------ what a run has done

\* The score the stub gives the reference ref and the candidate c.
Score(ref, c) == scorer[<<ref, c>>]

\* The other items of the snapshot that score at least 3.0 against ref.
Qualifying(ref) ==
    {c \in exp_summary_models \ {ref} : Score(ref, c) >= SIMILARITY_SCORE_THRESHOLD}

\* The references with at least one qualifying candidate.
WithCandidates == {ref \in exp_summary_models : Qualifying(ref) # {}}

\* The created models.
Created == BagToSet(exp_recommendations_models)

\* The records the run has computed: sorted and sliced, or already a model.
Computed ==
    {create_recommendation(k, sliced[k]) : k \in DOMAIN sliced} \cup Created

\* The models the run has put into the datastore.
Written == Created \ pending_put

Ids(record) == Range(record.recommended_exploration_ids)

\* The pipeline has run to its end without an exception.
Done == ~failed /\ AllCreated /\ pending_put = {} /\ count_pc = "end"

\* The outcome a run reports (spec.md, section 6): the failure when an
\* exception propagated, otherwise the elements of the returned PCollection.
Outcome == IF failed THEN {<<"FAILURE">>} ELSE {r.stdout : r \in Range(results)}

\* ------------------------------------------------------------------ claims

\* C1: no recommendation record computed or written for an item A holds A's
\* own id, whatever the scorer gives for the pair (A, A).
C1_NoSelfRecommendation ==
    \A record \in Computed : record.id \notin Ids(record)

\* A written record of an item whose score against itself is above the threshold.
C1_Witness ==
    \E record \in Written :
        /\ Score(record.id, record.id) >= SIMILARITY_SCORE_THRESHOLD
        /\ datastore[record.id] = record.recommended_exploration_ids

\* C2: every record computed or written holds at most MAX_RECOMMENDATIONS ids.
C2_AtMostMaxRecommendations ==
    \A record \in Computed :
        Len(record.recommended_exploration_ids) <= MAX_RECOMMENDATIONS

\* A written record of MAX_RECOMMENDATIONS ids whose reference has more
\* qualifying candidates than that.
C2_Witness ==
    \E record \in Written :
        /\ Cardinality(Qualifying(record.id)) > MAX_RECOMMENDATIONS
        /\ Len(record.recommended_exploration_ids) = MAX_RECOMMENDATIONS

\* C3: in every record of a reference R the ids are in descending order of
\* their score against R.
C3_SortedByDescendingScore ==
    \A record \in Computed :
        LET ids == record.recommended_exploration_ids
        IN \A i, j \in 1..Len(ids) :
              i < j => Score(record.id, ids[i]) >= Score(record.id, ids[j])

\* A written record with two ids of different scores.
C3_Witness ==
    \E record \in Written :
        LET ids == record.recommended_exploration_ids
        IN \E i, j \in 1..Len(ids) :
              i < j /\ Score(record.id, ids[i]) > Score(record.id, ids[j])

\* C4: a candidate whose score against R is below the threshold is in no
\* record of R, also when R has fewer than MAX_RECOMMENDATIONS qualifying
\* candidates.
C4_NothingBelowThreshold ==
    \A record \in Computed : \A c \in Ids(record) :
        Score(record.id, c) >= SIMILARITY_SCORE_THRESHOLD

\* A written record with fewer than MAX_RECOMMENDATIONS ids whose reference
\* has a candidate below the threshold.
C4_Witness ==
    \E record \in Written :
        /\ Len(record.recommended_exploration_ids) < MAX_RECOMMENDATIONS
        /\ \E c \in exp_summary_models \ {record.id} :
              /\ Score(record.id, c) < SIMILARITY_SCORE_THRESHOLD
              /\ c \notin Ids(record)

\* C5: every other item C whose score against R is at least the threshold
\* (a score equal to it included) is in the record of R, unless that record
\* holds MAX_RECOMMENDATIONS ids none of which scores lower than C; and once
\* every model is created R has a record.
C5_QualifyingUnlessTruncated ==
    /\ \A record \in Computed : \A c \in Qualifying(record.id) :
          \/ c \in Ids(record)
          \/ /\ Len(record.recommended_exploration_ids) = MAX_RECOMMENDATIONS
             /\ \A kept \in Ids(record) :
                   Score(record.id, kept) >= Score(record.id, c)
    /\ AllCreated => \A ref \in WithCandidates : \E record \in Created : record.id = ref

\* A written record that holds a candidate scoring exactly the threshold and
\* lacks another qualifying candidate, cut off by the slice.
C5_Witness ==
    \E record \in Written :
        /\ \E c \in Ids(record) : Score(record.id, c) = SIMILARITY_SCORE_THRESHOLD
        /\ \E c \in Qualifying(record.id) : c \notin Ids(record)

\* The group of ref as the run yields it when every iterable is enumerated
\* in ascending order of id, and the list that run computes for ref.
AscendingSimilarities(ref) ==
    LET order == SortedSeq(Qualifying(ref))
    IN [i \in 1..Len(order) |->
            [exp_id |-> order[i], similarity_score |-> Score(ref, order[i])]]

AscendingRun(ref) == sort_and_slice_similarities(AscendingSimilarities(ref))

\* No two qualifying candidates of ref have the same score.
NoTies(ref) ==
    \A c, d \in Qualifying(ref) : c # d => Score(ref, c) # Score(ref, d)

\* The ids of a set of records.
RecordIds(records) == {record.id : record \in records}

\* C6 as stated: two runs on the same snapshot and scorer give the same
\* records.  Two runs are two behaviours from the same initial state; they
\* always agree exactly when every run agrees with the run that enumerates
\* each iterable in ascending order of id.
C6_Idempotent ==
    /\ \A record \in Computed :
          record.recommended_exploration_ids = AscendingRun(record.id)
    /\ AllCreated => RecordIds(Created) = WithCandidates

\* C6, amended: every run gives the same record ids and, for each id, a list
\* of the same length with the same score at each position; the list itself
\* is the same when no two qualifying candidates of the reference tie.
C6_IdempotentUpToTies ==
    /\ \A record \in Computed :
          LET ids == record.recommended_exploration_ids
              other == AscendingRun(record.id)
          IN /\ Len(ids) = Len(other)
             /\ \A i \in 1..Len(ids) :
                   Score(record.id, ids[i]) = Score(record.id, other[i])
             /\ NoTies(record.id) => ids = other
    /\ AllCreated => RecordIds(Created) = WithCandidates

\* A written record of a reference with several qualifying candidates, no
\* two of them tied.
C6_Witness ==
    \E record \in Written :
        /\ NoTies(record.id)
        /\ Cardinality(Qualifying(record.id)) >= 2
        /\ datastore[record.id] = AscendingRun(record.id)

\* C7: the run creates and writes exactly one record, with a non-empty list,
\* for each reference with a qualifying candidate, under that reference's id,
\* and none for any other reference, whose datastore entry stays as it was.
C7_OneRecordPerReferenceWithCandidates ==
    /\ \A record \in Computed :
          /\ record.id \in WithCandidates
          /\ record.recommended_exploration_ids # <<>>
    /\ \A record \in Created :
          /\ CopiesIn(record, exp_recommendations_models) = 1
          /\ \A other \in Created : other.id = record.id => other = record
    /\ AllCreated => RecordIds(Created) = WithCandidates
    /\ \A record \in Written :
          /\ record.id \in DOMAIN datastore
          /\ datastore[record.id] = record.recommended_exploration_ids
    /\ \A id \in DOMAIN datastore \ RecordIds(Written) :
          id \in DOMAIN datastore_before /\ datastore[id] = datastore_before[id]
    /\ Done => RecordIds(Written) = WithCandidates

\* A finished run that wrote a record for one reference and none for another,
\* which has no qualifying candidate and no entry in the datastore.
C7_Witness ==
    /\ Done
    /\ \E record \in Written : datastore[record.id] = record.recommended_exploration_ids
    /\ \E ref \in exp_summary_models \ WithCandidates : ref \notin DOMAIN datastore

\* C8: a run reports at most one outcome.  A success outcome is 'SUCCESS n'
\* with n > 0, n the number of created models and of references with a
\* qualifying candidate; a finished run reports it exactly when there is such
\* a reference, having written n records, and reports nothing otherwise.
C8_OneOutcome ==
    /\ Len(results) <= 1
    /\ Cardinality(Outcome) <= 1
    /\ \A i \in 1..Len(results) :
          /\ results[i].stdout[1] = "SUCCESS"
          /\ results[i].stdout[2] > 0
          /\ AllCreated
          /\ results[i].stdout[2] = Cardinality(Created)
          /\ results[i].stdout[2] = Cardinality(WithCandidates)
    /\ count_pc = "end" => (results = <<>> <=> WithCandidates = {})
    /\ Done =>
          /\ Cardinality(RecordIds(Written)) = Cardinality(WithCandidates)
          /\ Outcome = IF WithCandidates = {} THEN {}
                       ELSE {<<"SUCCESS", Cardinality(WithCandidates)>>}

\* A finished run that reports 'SUCCESS 2' while a third reference has no
\* qualifying candidate.
C8_Witness ==
    /\ Done
    /\ Outcome = {<<"SUCCESS", 2>>}
    /\ exp_summary_models \ WithCandidates # {}

\* Every pair of different items scores below the threshold (and no call raises).
Quiet ==
    \A ref \in exp_summary_models : \A c \in exp_summary_models \ {ref} :
        Score(ref, c) # Raise /\ Score(ref, c) < SIMILARITY_SCORE_THRESHOLD

\* C9: on a quiet snapshot the run never fails, computes no record, leaves the
\* datastore as it was, emits no result, and is not stuck before its end
\* (every step consumes a pending element, so the run ends).
C9_QuietSuccess ==
    Quiet =>
        /\ ~failed
        /\ groups = {}
        /\ Computed = {}
        /\ datastore = datastore_before
        /\ Outcome = {}
        /\ Done \/ ENABLED Next

\* A finished quiet run on several items and a datastore that held a record.
C9_Witness ==
    /\ Quiet
    /\ Done
    /\ Cardinality(exp_summary_models) >= 2
    /\ datastore # NoRecords

\* C10: the list of a reference with m qualifying candidates holds exactly
\* min(m, MAX_RECOMMENDATIONS) different qualifying ids, and no dropped
\* candidate scores higher than a kept one.
C10_TruncationKeepsTheBest ==
    \A record \in Computed :
        LET ids == record.recommended_exploration_ids
            m == Cardinality(Qualifying(record.id))
        IN /\ Len(ids) = Min(m, MAX_RECOMMENDATIONS)
           /\ Ids(record) \subseteq Qualifying(record.id)
           /\ Cardinality(Ids(record)) = Len(ids)
           /\ \A dropped \in Qualifying(record.id) \ Ids(record) :
                 \A kept \in Ids(record) :
                     Score(record.id, dropped) <= Score(record.id, kept)

\* A written record of a reference with more than MAX_RECOMMENDATIONS
\* qualifying candidates, all of the same score: MAX_RECOMMENDATIONS are kept,
\* the others dropped.
C10_Witness ==
    \E record \in Written :
        LET m == Cardinality(Qualifying(record.id))
        IN /\ m > MAX_RECOMMENDATIONS
           /\ \A c, d \in Qualifying(record.id) :
                 Score(record.id, c) = Score(record.id, d)
           /\ Cardinality(Ids(record)) = MAX_RECOMMENDATIONS
           /\ Cardinality(Qualifying(record.id) \ Ids(record)) = m - MAX_RECOMMENDATIONS

\* The ids of the candidates a pair has been emitted for under the key ref.
EmittedFor(ref) == {pair.exp_id : pair \in {p \in BagToSet(emitted) : p.ref = ref}}

\* C11: when the datastore held a record for R before the run and the run
\* has written its record for R, the datastore holds for R exactly the newly
\* computed list (candidates emitted for R in this run, each once, as many
\* as the slice keeps): no id of the old list is in it unless it qualifies in
\* this run, and R has one record.
C11_UpsertReplacesWholesale ==
    \A id \in RecordIds(Written) \cap DOMAIN datastore_before :
        /\ id \in DOMAIN datastore
        /\ Cardinality({record \in Written : record.id = id}) = 1
        /\ Range(datastore[id]) \subseteq EmittedFor(id)
        /\ Len(datastore[id]) = Min(Cardinality(EmittedFor(id)), MAX_RECOMMENDATIONS)
        /\ Cardinality(Range(datastore[id])) = Len(datastore[id])
        /\ \A record \in Written :
              record.id = id => datastore[id] = record.recommended_exploration_ids
        /\ \A old \in Range(datastore_before[id]) :
              old \in Range(datastore[id]) => old \in Qualifying(id)

\* A finished run that replaced the record <<2>> of exploration 1 by a list
\* without 2.
C11_Witness ==
    /\ Done
    /\ 1 \in RecordIds(Written)
    /\ 1 \in DOMAIN datastore_before
    /\ datastore_before[1] = <<2>>
    /\ datastore[1] # <<>>
    /\ 2 \notin Range(datastore[1])

\* C12: a record the datastore held before the run, under an id the run emits
\* no list for (a reference without qualifying candidate, or an id that is
\* not in the snapshot), is there unchanged in every state of the run.
C12_StaleRecordsStay ==
    \A id \in DOMAIN datastore_before \ WithCandidates :
        /\ id \in DOMAIN datastore
        /\ datastore[id] = datastore_before[id]

\* A finished run that wrote a record and left two stale ones: the record of
\* exploration 1 still lists 2, which scores below the threshold against 1,
\* and the record of an id outside the snapshot is still there.
C12_Witness ==
    /\ Done
    /\ Written # {}
    /\ {1, 2} \subseteq exp_summary_models
    /\ 1 \notin WithCandidates
    /\ 1 \in DOMAIN datastore
    /\ datastore[1] = <<2>>
    /\ Score(1, 2) < SIMILARITY_SCORE_THRESHOLD
    /\ 0 \notin exp_summary_models
    /\ 0 \in DOMAIN datastore
    /\ datastore[0] = <<1>>

\* The put of some model has failed: 'Compute similarity' can only raise
\* before GroupByKey fires, the put only after.
PutFailed == failed /\ grouped

ScorerRaisesFor(ref) ==
    \E c \in exp_summary_models \ {ref} : Score(ref, c) = Raise

\* 'Compute similarity' has raised.
ScorerFailed == failed /\ ~grouped

\* C14: the unit of a reference for which the scorer raises never completes
\* (the pair is not skipped) and GroupByKey never fires in such a run; once
\* the scorer has raised the run takes no further step, its outcome is the
\* failure, no success element exists, and no record has been computed or
\* written, whatever pairs were emitted before the failure.
C14_ScorerFailureIsFatal ==
    /\ \A ref \in compared : ~ScorerRaisesFor(ref)
    /\ grouped => \A ref \in exp_summary_models : ~ScorerRaisesFor(ref)
    /\ ScorerFailed =>
          /\ ~ENABLED Next
          /\ Outcome = {<<"FAILURE">>}
          /\ results = <<>>
          /\ Computed = {}
          /\ datastore = datastore_before

\* The scorer has raised for a reference after a pair of that reference was
\* emitted, and after another reference's unit completed.
C14_Witness ==
    /\ ScorerFailed
    /\ compared # {}
    /\ \E pair \in BagToSet(emitted) : ScorerRaisesFor(pair.ref)

\* The complete groups of ref: every qualifying candidate with its score,
\* in the orders in which they may arrive.
FullGroups(ref) ==
    {[i \in 1..Len(order) |->
        [exp_id |-> order[i], similarity_score |-> Score(ref, order[i])]] :
            order \in IterationOrders(Qualifying(ref))}

\* C15: GroupByKey has fired only when every 'Compute similarity' unit has
\* returned, and then every qualifying pair is emitted; no group is sorted and
\* sliced before, and every record computed or written for R is the sorted
\* and sliced complete group of R, never that of a part of R's qualifying
\* pairs.
C15_GroupByKeyBarrier ==
    /\ grouped =>
          /\ compared = exp_summary_models
          /\ DOMAIN yielding = {}
          /\ \A ref \in exp_summary_models : EmittedFor(ref) = Qualifying(ref)
    /\ (groups # {} \/ Computed # {}) => grouped
    /\ \A record \in Computed :
          record.recommended_exploration_ids \in
              {sort_and_slice_similarities(similarities) :
                  similarities \in FullGroups(record.id)}
    /\ \A record \in Written :
          datastore[record.id] \in
              {sort_and_slice_similarities(similarities) :
                  similarities \in FullGroups(record.id)}

\* A written record of a reference whose unit yielded several pairs, one by
\* one, while other units ran.
C15_Witness ==
    \E record \in Written :
        /\ Cardinality(EmittedFor(record.id)) >= 2
        /\ Ids(record) = Qualifying(record.id)
        /\ datastore[record.id] = record.recommended_exploration_ids
        /\ Cardinality(exp_summary_models) >= 3

\* The place of the candidate c in the group given to the last call of
\* _sort_and_slice_similarities, and its score there.
Arrival(c) ==
    CHOOSE i \in 1..Len(last_call.similarities) :
        last_call.similarities[i].exp_id = c

ArrivedScore(c) == last_call.similarities[Arrival(c)].similarity_score

\* The candidates of that group, and those the call returned.
Arrived == {item.exp_id : item \in Range(last_call.similarities)}

Kept == Range(last_call.returned)

\* C16: in the list a call of _sort_and_slice_similarities returns, two
\* candidates of equal score are in the order in which they arrived in the
\* group, and a candidate cut off by the slice arrived after every kept
\* candidate of the same score.
C16_StableDescendingSort ==
    /\ Kept \subseteq Arrived
    /\ \A i, j \in 1..Len(last_call.returned) :
          (i < j /\ ArrivedScore(last_call.returned[i]) = ArrivedScore(last_call.returned[j]))
              => Arrival(last_call.returned[i]) < Arrival(last_call.returned[j])
    /\ \A dropped \in Arrived \ Kept : \A kept \in Kept :
          ArrivedScore(kept) = ArrivedScore(dropped) => Arrival(kept) < Arrival(dropped)

\* A call on a group of more than MAX_RECOMMENDATIONS candidates that did not
\* arrive in ascending order of id, where the slice cuts inside a run of ties.
C16_Witness ==
    /\ Len(last_call.similarities) > MAX_RECOMMENDATIONS
    /\ last_call.similarities[1].exp_id > last_call.similarities[2].exp_id
    /\ \E dropped \in Arrived \ Kept :
          ArrivedScore(dropped) = ArrivedScore(last_call.returned[MAX_RECOMMENDATIONS])
    /\ \E i \in 1..(MAX_RECOMMENDATIONS - 1) :
          ArrivedScore(last_call.returned[i]) > ArrivedScore(last_call.returned[i + 1])

\* The lists an uninterrupted run can compute for ref: its sorted and sliced
\* complete groups (one list when no two qualifying candidates tie).
CompleteLists(ref) ==
    {sort_and_slice_similarities(similarities) : similarities \in FullGroups(ref)}

\* What a single uninterrupted run started on the datastore first_store
\* leaves: a computed list for every id the job emits, every other record as
\* it was.
LeftByCompleteRun(first_store, store) ==
    /\ DOMAIN store = DOMAIN first_store \cup WithCandidates
    /\ \A id \in WithCandidates : store[id] \in CompleteLists(id)
    /\ \A id \in DOMAIN first_store \ WithCandidates : store[id] = first_store[id]

\* The ids of the records the crashed runs wrote.
WrittenByCrashed ==
    {id \in DOMAIN left_by_crash :
        id \notin DOMAIN datastore_before \/ left_by_crash[id] # datastore_before[id]}

\* C17: a run that completes, the first one or one that follows crashed runs
\* on the same snapshot, leaves the datastore as a single uninterrupted run
\* on the first datastore leaves it; every record of an id the job emits is
\* the one this run wrote, so no record written by a crashed run survives
\* with another list.
C17_RecoveryByRerun ==
    Done =>
        /\ LeftByCompleteRun(datastore_before, datastore)
        /\ RecordIds(Written) = WithCandidates
        /\ \A record \in Written :
              datastore[record.id] = record.recommended_exploration_ids
        /\ reruns > 0 => WrittenByCrashed \subseteq RecordIds(Written)

\* A complete run after a run that crashed having written one record and not
\* another: the record of the crashed run has been replaced by another list
\* (its candidates tie) and the missing record is there.
C17_Witness ==
    /\ Done
    /\ reruns > 0
    /\ \E id \in WrittenByCrashed : left_by_crash[id] # datastore[id]
    /\ WithCandidates \ DOMAIN left_by_crash # {}

\* The list of ref when nothing but the unit of ref has run: process() on
\* the snapshot in ascending order of id, its pairs grouped as yielded.
ProcessedAlone(ref) ==
    LET yielded == process(ref, SortedSeq(exp_summary_models)).yielded
    IN sort_and_slice_similarities(
           [i \in 1..Len(yielded) |->
               [exp_id |-> yielded[i].exp_id,
                similarity_score |-> yielded[i].similarity_score]])

\* C18 as stated: the record of R is a function of the snapshot and of the
\* scores of R alone, the same in every interleaving, and so is the final
\* set of records.
C18_Independent ==
    /\ \A record \in Computed :
          record.recommended_exploration_ids = ProcessedAlone(record.id)
    /\ Done =>
          Written = {create_recommendation(ref, ProcessedAlone(ref)) : ref \in WithCandidates}

\* C18, amended: in every interleaving of the units the record of R holds
\* candidates of R only, each once, as many as the list of R computed alone
\* and with the same score at each place: the snapshot and the scores of R
\* against the other items determine it up to the order of candidates that
\* tie, and exactly when none tie; the units of the other references do not
\* change it in the datastore, and the set of ids a finished run has written
\* is the set of references with a qualifying candidate.
C18_IndependentUpToOwnTies ==
    /\ \A record \in Computed :
          LET ids == record.recommended_exploration_ids
              alone == ProcessedAlone(record.id)
          IN /\ Len(ids) = Len(alone)
             /\ Ids(record) \subseteq Qualifying(record.id)
             /\ Cardinality(Ids(record)) = Len(ids)
             /\ \A i \in 1..Len(ids) :
                   Score(record.id, ids[i]) = Score(record.id, alone[i])
             /\ NoTies(record.id) => ids = alone
    /\ \A record \in Written :
          datastore[record.id] = record.recommended_exploration_ids
    /\ Done => RecordIds(Written) = WithCandidates

\* A finished run that wrote the records of two references, one of them with
\* several candidates that do not tie, in another order than that of the ids.
C18_Witness ==
    /\ Done
    /\ Cardinality(RecordIds(Written)) >= 2
    /\ \E record \in Written :
          /\ NoTies(record.id)
          /\ Len(record.recommended_exploration_ids) >= 2
          /\ record.recommended_exploration_ids[1] > record.recommended_exploration_ids[2]
          /\ datastore[record.id] = ProcessedAlone(record.id)

\* How many times get_item_similarity was called with (ref, c).
Calls(ref, c) == CopiesIn(<<ref, c>>, scored)

\* C19: get_item_similarity is never called with (R, R), whatever that pair
\* would score, and at most once with any pair; when the unit of R has
\* returned it was called exactly once with (R, C) for every other item C of
\* the snapshot, and only units that have started have called it.
C19_ScorerCalledForOtherItemsOnly ==
    /\ \A call \in BagToSet(scored) :
          /\ call[1] \in exp_summary_models
          /\ call[2] \in exp_summary_models
          /\ call[1] # call[2]
          /\ Calls(call[1], call[2]) = 1
    /\ \A ref \in exp_summary_models : Calls(ref, ref) = 0
    /\ \A ref \in compared : \A c \in exp_summary_models \ {ref} : Calls(ref, c) = 1
    /\ grouped => BagCardinality(scored) =
          Cardinality(exp_summary_models) * (Cardinality(exp_summary_models) - 1)

\* Every unit has returned on a snapshot of several items, one of which
\* scores at least the threshold against itself: the scorer was called once
\* for every ordered pair of different items.
C19_Witness ==
    /\ compared = exp_summary_models
    /\ Cardinality(exp_summary_models) >= 3
    /\ \E ref \in exp_summary_models : Score(ref, ref) >= SIMILARITY_SCORE_THRESHOLD
    /\ \A ref \in exp_summary_models : \A c \in exp_summary_models \ {ref} :
          Calls(ref, c) = 1

\* The snapshot the run was given: the summaries and, standing for their
\* attributes, what the scorer gives for them.
Snapshot == <<exp_summary_models, scorer>>

\* C20: no step of the run, of any unit, changes the snapshot, and a step
\* that changes the datastore is the put of a created recommendation model
\* under its id.
C20_SnapshotNeverModified ==
    [][/\ Snapshot' = Snapshot
       /\ datastore' # datastore =>
             \E model \in pending_put :
                 /\ model \in Created
                 /\ datastore' = put(datastore, model)
                 /\ \A id \in DOMAIN datastore \ {model.id} :
                       datastore'[id] = datastore[id]]_vars

\* A finished run in which a unit yielded several pairs and records were
\* written, on a snapshot of several items.
C20_Witness ==
    /\ Done
    /\ datastore # datastore_before
    /\ Cardinality(exp_summary_models) >= 3
    /\ BagCardinality(scored) >= 6
    /\ BagCardinality(emitted) >= 2

\* The scorer is asymmetric on (ref, c): c qualifies for ref, ref does not
\* qualify for c.
OneWay(ref, c) ==
    /\ ref # c
    /\ Score(ref, c) >= SIMILARITY_SCORE_THRESHOLD
    /\ Score(c, ref) # Raise
    /\ Score(c, ref) < SIMILARITY_SCORE_THRESHOLD

\* C21: every id C in a record of R has score(R, C) at least the threshold,
\* whatever score(C, R) is, and the ids are in descending order of
\* score(R, .); once every model is created, C is in the record of R when
\* score(R, C) is at least the threshold and R has at most
\* MAX_RECOMMENDATIONS qualifying candidates, and when score(C, R) is below
\* the threshold no record of C holds R.
C21_ReferenceIsFirstArgument ==
    /\ \A record \in Computed :
          LET ids == record.recommended_exploration_ids
          IN /\ \A c \in Ids(record) :
                   Score(record.id, c) >= SIMILARITY_SCORE_THRESHOLD
             /\ \A i, j \in 1..Len(ids) :
                   i < j => Score(record.id, ids[i]) >= Score(record.id, ids[j])
    /\ AllCreated =>
          \A ref \in exp_summary_models : \A c \in exp_summary_models \ {ref} :
              /\ (/\ Score(ref, c) >= SIMILARITY_SCORE_THRESHOLD
                  /\ Cardinality(Qualifying(ref)) <= MAX_RECOMMENDATIONS)
                    => \E record \in Created : record.id = ref /\ c \in Ids(record)
              /\ OneWay(ref, c) =>
                    \A record \in Created : record.id = c => ref \notin Ids(record)

\* A finished run with an asymmetric scorer: C is in the written record of
\* R, C has a written record too and R is not in it; and in the record of R
\* an id comes first whose score(., R) is the lower one.
C21_Witness ==
    /\ Done
    /\ \E ref \in exp_summary_models : \E c \in exp_summary_models :
          /\ OneWay(ref, c)
          /\ \E record \in Written :
                /\ record.id = ref
                /\ c \in Ids(record)
                /\ Len(record.recommended_exploration_ids) >= 2
                /\ Score(record.recommended_exploration_ids[1], ref)
                      < Score(record.recommended_exploration_ids[2], ref)
          /\ \E record \in Written : record.id = c /\ ref \notin Ids(record)

\* C22: the snapshot holds every id once (it is a set of ids); the id of every
\* record the run computes or writes is the id of an item of the snapshot,
\* every id of its list is the id of an item of the snapshot, and no id is
\* twice in the list.
C22_IdsOfTheSnapshotOnce ==
    \A record \in Computed \cup Written :
        /\ record.id \in exp_summary_models
        /\ Ids(record) \subseteq exp_summary_models
        /\ Cardinality(Ids(record)) = Len(record.recommended_exploration_ids)

\* A finished run that wrote a list of two ids or more into a datastore that
\* also holds the record of an id outside the snapshot.
C22_Witness ==
    /\ Done
    /\ DOMAIN datastore \ exp_summary_models # {}
    /\ \E record \in Written :
          /\ Len(record.recommended_exploration_ids) >= 2
          /\ datastore[record.id] = record.recommended_exploration_ids

\* The request has been handled to its end.
Answered == response.status = "ok"

\* C23: the handler leaves the datastore as it was; the system-recommended
\* ids it selects are at most MAX_SYSTEM_RECOMMENDATIONS, all of the stored
\* record of the requested exploration and none an author-recommended id;
\* with a collection_id it selects none, whatever
\* include_system_recommendations is.
C23_ReaderSamplesStoredIds ==
    /\ datastore = datastore_before
    /\ LET selected == Range(response.system_recommended_exp_ids)
       IN /\ Cardinality(selected) <= MAX_SYSTEM_RECOMMENDATIONS
          /\ Len(response.system_recommended_exp_ids) = Cardinality(selected)
          /\ selected \subseteq Range(get_exploration_recommendations(request.exploration_id))
          /\ selected \cap Range(response.author_recommended_exp_ids) = {}
          /\ truthy(request.collection_id) => selected = {}

\* An answered request without a collection_id: four ids are selected of a
\* stored list that has more left once the author's stored id is taken out.
C23_Witness ==
    /\ Answered
    /\ ~truthy(request.collection_id)
    /\ Len(response.system_recommended_exp_ids) = MAX_SYSTEM_RECOMMENDATIONS
    /\ \E a \in Range(response.author_recommended_exp_ids) :
          a \in Range(get_exploration_recommendations(request.exploration_id))
    /\ Cardinality(Range(get_exploration_recommendations(request.exploration_id))
                     \ Range(response.author_recommended_exp_ids))
          > MAX_SYSTEM_RECOMMENDATIONS

====
